---------------------------- MODULE Spec2Model ----------------------------
(***************************************************************************)
(* Model of blog_os's paging layer: src/src/memory.rs (the Mapper built by *)
(* memory::init, the frame allocators, translate_addr and                  *)
(* create_example_mapping) and of kernel_main in src/src/main.rs.          *)
(*                                                                         *)
(* Values.  A physical address is a number.  A 64-bit virtual address is   *)
(* kept as the fields the paging hardware splits it into,                  *)
(*   [p4, p3, p2, p1, off],                                                *)
(* because 0xdeadbeaf000 does not fit TLC's integers.  A memory region is  *)
(* the bootloader's MemoryRegion: a FrameRange of two frame numbers and a  *)
(* region type; start_addr() and end_addr() are the frame numbers times    *)
(* the page size.  Option<T> is [some, v]; Result<T, E> is [ok, v, err].   *)
(***************************************************************************)
EXTENDS Integers, Sequences, FiniteSets, TLC

VARIABLES
    memory_map,              \* boot_info.memory_map
    physical_memory_offset,  \* boot_info.physical_memory_offset
    phys_mem,                \* physical memory: table frame -> page table
    cr3,                     \* frame of the active level-4 table (Cr3::read)
    mappers,                 \* Mapper values memory::init has returned
    frames,                  \* BootInfoFrameAllocator.frames
    pc,                      \* where the caller / kernel_main stands
    results,                 \* what the caller's allocate_frame calls returned
    translate_result,        \* the translate_addr call made since the last map_to
    map_to_result,           \* the last map_to call: its arguments and result
    flushed,                 \* pages whose translation-cache entry was flushed
    console,                 \* lines printed, and the volatile write
    virt,                    \* a phys_to_virt call: its arguments and outcome
    frames_b,                \* a second BootInfoFrameAllocator over memory_map
    results_b,               \* what allocate_frame on the second one returned
    empty_results            \* what EmptyFrameAllocator::allocate_frame returned

vars == <<memory_map, physical_memory_offset, phys_mem, cr3, mappers, frames,
          pc, results, translate_result, map_to_result, flushed, console,
          virt, frames_b, results_b, empty_results>>

---------------------------------------------------------------------------
(* Bounds of the model.                                                    *)
MaxRegions == 2
MaxFrameNumber == 3
MaxCalls == 7
MaxInits == 2
MaxMapCalls == 2

(* Program constants.                                                      *)
PAGE_SIZE == 4096

---------------------------------------------------------------------------
(* Option and Result values.                                               *)
Some(x) == [some |-> TRUE, v |-> x]
None == [some |-> FALSE, v |-> 0]
Ok(x) == [ok |-> TRUE, v |-> x, err |-> "-"]
Err(e) == [ok |-> FALSE, v |-> 0, err |-> e]

(* F applied to the value of x, which is computed once.                    *)
Then(x, F(_)) == CHOOSE r \in {F(y) : y \in {x}} : TRUE

---------------------------------------------------------------------------
(* The memory map.                                                         *)
RegionTypes == {"Usable", "Reserved"}

Regions ==
    [start_frame_number : 0..MaxFrameNumber,
     end_frame_number : 0..MaxFrameNumber,
     region_type : RegionTypes]

Region(s, e, t) ==
    [start_frame_number |-> s, end_frame_number |-> e, region_type |-> t]

start_addr(r) == r.start_frame_number * PAGE_SIZE
end_addr(r) == r.end_frame_number * PAGE_SIZE

(* The region list of the spec's scenario: 0x1000-0x3000 Usable,           *)
(* 0x3000-0x4000 Reserved, 0x4000-0x6000 Usable.                           *)
ScenarioMap ==
    <<Region(1, 3, "Usable"), Region(3, 4, "Reserved"), Region(4, 6, "Usable")>>

RegionLists == UNION {[1..n -> Regions] : n \in 0..MaxRegions}

---------------------------------------------------------------------------
(* init_frame_allocator: the lazy iterator                                 *)
(*   memory_map.iter().filter(Usable).map(start..end)                      *)
(*     .flat_map(|r| r.step_by(4096)).map(PhysFrame::containing_address)   *)
(* Its state is the slice iterator's position and the flat_map's current   *)
(* inner StepBy<Range<u64>>.                                               *)
NoFront == [live |-> FALSE, start |-> 0, end |-> 0, first_take |-> FALSE]

init_frame_allocator(mm) == [pos |-> 1, front |-> NoFront]

(* A variant of RangeNext for the inclusive range start..=end.             *)
RangeNext_inclusive(r) ==
    IF r.start <= r.end
    THEN [item |-> Some(r.start), it |-> [r EXCEPT !.start = r.start + 1]]
    ELSE [item |-> None, it |-> r]

(* A variant of RangeNext that stops only where start equals end.          *)
RangeNext_until_equal(r) ==
    IF r.start # r.end
    THEN [item |-> Some(r.start), it |-> [r EXCEPT !.start = r.start + 1]]
    ELSE [item |-> None, it |-> r]

(* Range<u64>::next                                                        *)
RangeNext(r) ==
    IF r.start < r.end
    THEN [item |-> Some(r.start), it |-> [r EXCEPT !.start = r.start + 1]]
    ELSE [item |-> None, it |-> r]

(* Range<u64>::nth                                                         *)
RangeNth(r, n) ==
    IF r.start + n < r.end
    THEN [item |-> Some(r.start + n), it |-> [r EXCEPT !.start = r.start + n + 1]]
    ELSE [item |-> None, it |-> [r EXCEPT !.start = r.end]]

(* A variant of StepByNext that steps by 4095.                             *)
StepByNext_short(r) ==
    IF r.first_take
    THEN RangeNext([r EXCEPT !.first_take = FALSE])
    ELSE RangeNth(r, PAGE_SIZE - 2)

(* StepBy::next with step 4096: the first call takes next(), the later     *)
(* ones nth(step - 1).                                                     *)
StepByNext(r) ==
    IF r.first_take
    THEN RangeNext([r EXCEPT !.first_take = FALSE])
    ELSE RangeNth(r, PAGE_SIZE - 1)

(* A variant of NextUsable without the filter on the region type.          *)
NextUsable_unfiltered(mm, pos) ==
    IF pos > Len(mm) THEN Len(mm) + 1 ELSE pos

(* The filter over the slice iterator: the position of the next Usable     *)
(* region at or after pos, Len + 1 when there is none.                     *)
RECURSIVE NextUsable(_, _)
NextUsable(mm, pos) ==
    IF pos > Len(mm) THEN Len(mm) + 1
    ELSE IF mm[pos].region_type = "Usable" THEN pos
    ELSE NextUsable(mm, pos + 1)

(* FlatMap::next: drain the current inner iterator, else open the next     *)
(* region's range; None when the outer iterator is done.                   *)
RECURSIVE FlatMapNext(_, _)
FlatMapNext(mm, it) ==
    Then(StepByNext(it.front), LAMBDA inner :
        IF it.front.live /\ inner.item.some
        THEN [item |-> inner.item, it |-> [it EXCEPT !.front = inner.it]]
        ELSE Then(NextUsable(mm, it.pos), LAMBDA u :
            IF u > Len(mm)
            THEN [item |-> None, it |-> [pos |-> u, front |-> NoFront]]
            ELSE FlatMapNext(mm,
                     [pos |-> u + 1,
                      front |-> [live |-> TRUE, start |-> start_addr(mm[u]),
                                 end |-> end_addr(mm[u]), first_take |-> TRUE]])))

(* A variant of containing_address on an address cut to its low 13 bits.   *)
containing_address_truncated(addr) ==
    (addr % (2 * PAGE_SIZE)) - (addr % PAGE_SIZE)

(* A variant of containing_address that returns the frame's number.        *)
containing_address_number(addr) == addr \div PAGE_SIZE

(* PhysFrame::containing_address: the address aligned down to the page.    *)
containing_address(addr) == addr - (addr % PAGE_SIZE)

(* A variant of allocate_frame that builds the iterator anew once it has   *)
(* run out.                                                                *)
allocate_frame_rewinding(mm, it) ==
    Then(FlatMapNext(mm, it), LAMBDA n :
        [item |-> IF n.item.some THEN Some(containing_address(n.item.v)) ELSE None,
         it |-> IF n.item.some THEN n.it ELSE init_frame_allocator(mm)])

(* BootInfoFrameAllocator::allocate_frame: self.frames.next()              *)
allocate_frame(mm, it) ==
    Then(FlatMapNext(mm, it), LAMBDA n :
        [item |-> IF n.item.some THEN Some(containing_address(n.item.v)) ELSE None,
         it |-> n.it])

(* A variant of empty_allocate_frame that dispenses frame 0.               *)
empty_allocate_frame_zero == Some(0)

(* EmptyFrameAllocator::allocate_frame                                     *)
empty_allocate_frame == None


---------------------------------------------------------------------------
(* Virtual addresses and pages.                                            *)
VirtAddr(a4, a3, a2, a1, o) == [p4 |-> a4, p3 |-> a3, p2 |-> a2, p1 |-> a1, off |-> o]

(* 0xdeadbeaf000 + o: level-4 index 27, level-3 427, level-2 223,          *)
(* level-1 175.                                                            *)
ExampleAddr(o) == VirtAddr(27, 427, 223, 175, o)

(* Page::containing_address: the address with its in-page offset cleared.  *)
page_containing_address(addr) == [addr EXCEPT !.off = 0]

(* VirtAddr::page_offset                                                   *)
page_offset(addr) == addr.off

ExamplePage == page_containing_address(ExampleAddr(0))

(* 0xb8000, the frame create_example_mapping maps the page to.             *)
ExampleFrame == 753664

(* The pages the model's callers name: the example page and, for each      *)
(* level, the page whose index at that level is one higher.                *)
Differ(p, q) == {l \in {"p4", "p3", "p2", "p1"} : p[l] # q[l]}

Pages ==
    {p \in [p4 : {27, 28}, p3 : {427, 428}, p2 : {223, 224}, p1 : {175, 176},
            off : {0}] : Cardinality(Differ(p, ExamplePage)) <= 1}

Offsets == {0, 10, PAGE_SIZE - 1}

(* The addresses the model's callers translate: every offset of the        *)
(* example page, and the start of the other pages.                         *)
Addrs == {ExampleAddr(o) : o \in Offsets} \cup Pages

(* The table indices those pages use; a modelled table holds the entries   *)
(* at these indices.                                                       *)
Indices == {27, 28, 175, 176, 223, 224, 427, 428}

---------------------------------------------------------------------------
(* Page tables (x86_64::structures::paging, as used through Mapper).       *)
Entry(a, fl) == [addr |-> a, flags |-> fl]
Unused == Entry(0, {})
is_unused(e) == e = Unused
ZeroTable == [i \in Indices |-> Unused]

(* u64 values, kept in three limbs because 2^64 does not fit TLC's         *)
(* integers: hi is bits 47..63, mid bits 24..46, lo bits 0..23.            *)
LoSize == 16777216
MidSize == 8388608
HiSize == 131072

U64(h, m, l) == [hi |-> h, mid |-> m, lo |-> l]
as_u64(n) == U64(0, n \div LoSize, n % LoSize)
as_number(a) == a.mid * LoSize + a.lo

(* phys_addr + physical_memory_offset on u64: the sum modulo 2^64 and      *)
(* whether the exact sum needs more than 64 bits.                          *)
add_u64(a, b) ==
    LET l == a.lo + b.lo
        m == a.mid + b.mid + (l \div LoSize)
        h == a.hi + b.hi + (m \div MidSize)
    IN  [overflow |-> h >= HiSize,
         sum |-> U64(h % HiSize, m % MidSize, l % LoSize)]

(* The closure did not return: the kernel panicked.                        *)
Panicked == [ok |-> FALSE, v |-> U64(0, 0, 0), err |-> "panic"]
NotCalled == [ok |-> FALSE, v |-> U64(0, 0, 0), err |-> "-"]

(* VirtAddr::new: an address whose bits 47..63 are all equal is taken as   *)
(* it is, one with only bit 47 set is sign-extended, any other panics.     *)
VirtAddr_new(a) ==
    IF a.hi \in {0, HiSize - 1} THEN Ok(a)
    ELSE IF a.hi = 1 THEN Ok([a EXCEPT !.hi = HiSize - 1])
    ELSE Panicked

(* init_inner's phys_to_virt closure: the outcomes a build can produce.    *)
(* The addition panics on overflow when overflow checks are compiled in    *)
(* and wraps when they are not; VirtAddr::new then takes the sum.          *)
phys_to_virt(frame, offset) ==
    LET s == add_u64(frame, offset)
    IN  IF s.overflow
        THEN {Panicked, VirtAddr_new(s.sum)}
        ELSE {VirtAddr_new(s.sum)}

(* The pointer phys_to_virt returns for a frame of the modelled physical   *)
(* memory, as a number: there the sum neither overflows nor leaves the     *)
(* lower half, so the closure's one outcome is the sum (PointerIsSum).     *)
(* deref is the read through it: all physical memory is mapped at          *)
(* physical_memory_offset.                                                 *)
as_mut_ptr(frame, offset) == frame + offset
deref(mem, ptr) == mem[ptr - physical_memory_offset]

(* For every frame that holds a page table, phys_to_virt has the single    *)
(* outcome as_mut_ptr.                                                     *)
PointerIsSum ==
    \A f \in DOMAIN phys_mem :
        phys_to_virt(as_u64(f), as_u64(physical_memory_offset))
            = {Ok(as_u64(as_mut_ptr(f, physical_memory_offset)))}
frame_of(ptr) == ptr - physical_memory_offset

(* memory::init: the level-4 table read from CR3, and the closure.         *)
init(offset) == [level_4_table |-> as_mut_ptr(cr3, offset), offset |-> offset]

(* The walk to the next level: PageTableEntry::frame, then phys_to_virt.   *)
next_table(mapper, e) ==
    IF "PRESENT" \notin e.flags THEN Err("NotMapped")
    ELSE IF "HUGE_PAGE" \in e.flags THEN Err("MappedToHugePage")
    ELSE Ok(as_mut_ptr(containing_address(e.addr), mapper.offset))

WalkError(e) ==
    IF e = "NotMapped" THEN "PageNotMapped" ELSE "ParentEntryHugePage"

(* Mapper::translate_page, called at memory.rs:62.                         *)
translate_page(mem, mapper, page) ==
    Then(next_table(mapper, deref(mem, mapper.level_4_table)[page.p4]),
         LAMBDA t3 : IF ~t3.ok THEN Err(WalkError(t3.err)) ELSE
    Then(next_table(mapper, deref(mem, t3.v)[page.p3]),
         LAMBDA t2 : IF ~t2.ok THEN Err(WalkError(t2.err)) ELSE
    Then(next_table(mapper, deref(mem, t2.v)[page.p2]),
         LAMBDA t1 : IF ~t1.ok THEN Err(WalkError(t1.err)) ELSE
    Then(deref(mem, t1.v)[page.p1],
         LAMBDA e : IF is_unused(e) THEN Err("PageNotMapped")
                    ELSE IF e.addr % PAGE_SIZE # 0 THEN Err("InvalidFrameAddress")
                    ELSE Ok(e.addr)))))

(* A variant of translate_addr that returns the frame's start address.     *)
translate_addr_frame_start(addr, mem, mapper) ==
    translate_page(mem, mapper, page_containing_address(addr))

(* A variant of translate_addr that turns the error into address 0.        *)
translate_addr_or_zero(addr, mem, mapper) ==
    Then(translate_page(mem, mapper, page_containing_address(addr)),
         LAMBDA frame : Ok(frame.v + page_offset(addr)))

(* translate_addr                                                          *)
translate_addr(addr, mem, mapper) ==
    Then(translate_page(mem, mapper, page_containing_address(addr)),
         LAMBDA frame : IF frame.ok THEN Ok(frame.v + page_offset(addr)) ELSE frame)

(* FrameAllocator::allocate_frame on the allocator handed to map_to:       *)
(* the BootInfoFrameAllocator or the EmptyFrameAllocator.                  *)
alloc_frame(alloc) ==
    IF alloc.kind = "Empty"
    THEN [item |-> empty_allocate_frame, alloc |-> alloc]
    ELSE Then(allocate_frame(memory_map, alloc.it),
              LAMBDA n : [item |-> n.item, alloc |-> [alloc EXCEPT !.it = n.it]])

(* create_next_table on entry idx of the table at ptr: a frame from the    *)
(* allocator for an unused entry, zeroed, then the walk to it.             *)
create_next_table(mem, mapper, alloc, ptr, idx) ==
    IF is_unused(deref(mem, ptr)[idx])
    THEN Then(alloc_frame(alloc), LAMBDA a :
             IF ~a.item.some
             THEN [res |-> Err("FrameAllocationFailed"), mem |-> mem, alloc |-> a.alloc]
             ELSE [res |-> Ok(as_mut_ptr(a.item.v, mapper.offset)),
                   mem |-> [x \in DOMAIN mem \cup {a.item.v} |->
                              IF x = a.item.v THEN ZeroTable
                              ELSE IF x = frame_of(ptr)
                              THEN [mem[x] EXCEPT ![idx] =
                                      Entry(a.item.v, {"PRESENT", "WRITABLE"})]
                              ELSE mem[x]],
                   alloc |-> a.alloc])
    ELSE Then(next_table(mapper, deref(mem, ptr)[idx]), LAMBDA t :
             [res |-> IF t.ok THEN t
                      ELSE IF t.err = "MappedToHugePage"
                      THEN Err("ParentEntryHugePage")
                      ELSE Err("panic"),
              mem |-> mem, alloc |-> alloc])

(* A variant of set_p1_entry that writes the entry whatever it holds.      *)
set_p1_entry_overwrite(c1, page, frame, flags) ==
    [res |-> Ok(page),
     mem |-> [c1.mem EXCEPT ![frame_of(c1.res.v)][page.p1] = Entry(frame, flags)],
     alloc |-> c1.alloc]

(* A variant of set_p1_entry that writes a fresh level-1 table holding     *)
(* the new entry alone.                                                    *)
set_p1_entry_fresh_table(c1, page, frame, flags) ==
    IF ~is_unused(c1.mem[frame_of(c1.res.v)][page.p1])
    THEN [res |-> Err("PageAlreadyMapped"), mem |-> c1.mem, alloc |-> c1.alloc]
    ELSE [res |-> Ok(page),
          mem |-> [c1.mem EXCEPT ![frame_of(c1.res.v)] =
                     [ZeroTable EXCEPT ![page.p1] = Entry(frame, flags)]],
          alloc |-> c1.alloc]

(* The last step of map_to, on the level-1 table c1 leads to.              *)
set_p1_entry(c1, page, frame, flags) ==
    IF ~is_unused(c1.mem[frame_of(c1.res.v)][page.p1])
    THEN [res |-> Err("PageAlreadyMapped"), mem |-> c1.mem, alloc |-> c1.alloc]
    ELSE [res |-> Ok(page),
          mem |-> [c1.mem EXCEPT ![frame_of(c1.res.v)][page.p1] = Entry(frame, flags)],
          alloc |-> c1.alloc]

(* A variant of map_to that reports success when a table could not be     *)
(* created.                                                                *)
map_to_unchecked(mem, mapper, alloc, page, frame, flags) ==
    Then(create_next_table(mem, mapper, alloc, mapper.level_4_table, page.p4),
         LAMBDA c3 : IF ~c3.res.ok THEN [c3 EXCEPT !.res = Ok(page)] ELSE
    Then(create_next_table(c3.mem, mapper, c3.alloc, c3.res.v, page.p3),
         LAMBDA c2 : IF ~c2.res.ok THEN [c2 EXCEPT !.res = Ok(page)] ELSE
    Then(create_next_table(c2.mem, mapper, c2.alloc, c2.res.v, page.p2),
         LAMBDA c1 : IF ~c1.res.ok THEN [c1 EXCEPT !.res = Ok(page)] ELSE
    set_p1_entry(c1, page, frame, flags))))

(* Mapper::map_to, called at memory.rs:76.                                 *)
map_to(mem, mapper, alloc, page, frame, flags) ==
    Then(create_next_table(mem, mapper, alloc, mapper.level_4_table, page.p4),
         LAMBDA c3 : IF ~c3.res.ok THEN c3 ELSE
    Then(create_next_table(c3.mem, mapper, c3.alloc, c3.res.v, page.p3),
         LAMBDA c2 : IF ~c2.res.ok THEN c2 ELSE
    Then(create_next_table(c2.mem, mapper, c2.alloc, c2.res.v, page.p2),
         LAMBDA c1 : IF ~c1.res.ok THEN c1 ELSE
    set_p1_entry(c1, page, frame, flags))))

---------------------------------------------------------------------------
(* The state kernel_main is entered in: the page tables the bootloader     *)
(* left behind and the memory map it reports.                              *)
BootP4 == 16 * PAGE_SIZE
BootP3 == 17 * PAGE_SIZE
BootP2 == 18 * PAGE_SIZE
BootP1 == 19 * PAGE_SIZE
BootFrameA == 32 * PAGE_SIZE
BootFrameB == 33 * PAGE_SIZE

Link(f) == Entry(f, {"PRESENT", "WRITABLE"})
Huge(f) == Entry(f, {"PRESENT", "WRITABLE", "HUGE_PAGE"})

(* The boot tables along the example page's walk: depth tables below the   *)
(* level-4 table exist (depth 4: the page itself is mapped); huge marks a  *)
(* huge-page entry where the walk would go on.  With a level-1 table, the  *)
(* neighbouring page (level-1 index 176) is mapped.                        *)
BootTables(depth, huge) ==
    [f \in {BootP4} \cup (IF depth >= 1 THEN {BootP3} ELSE {})
                    \cup (IF depth >= 2 THEN {BootP2} ELSE {})
                    \cup (IF depth >= 3 THEN {BootP1} ELSE {}) |->
        IF f = BootP4
        THEN [ZeroTable EXCEPT ![27] = IF depth >= 1 THEN Link(BootP3) ELSE Unused]
        ELSE IF f = BootP3
        THEN [ZeroTable EXCEPT ![427] = IF depth >= 2 THEN Link(BootP2)
                                        ELSE IF huge THEN Huge(BootFrameA) ELSE Unused]
        ELSE IF f = BootP2
        THEN [ZeroTable EXCEPT ![223] = IF depth >= 3 THEN Link(BootP1)
                                        ELSE IF huge THEN Huge(BootFrameA) ELSE Unused]
        ELSE [ZeroTable EXCEPT ![175] = IF depth >= 4 THEN Link(BootFrameA) ELSE Unused,
                               ![176] = Link(BootFrameB)]]

BootStates ==
    {BootTables(d, h) : d \in 0..4, h \in BOOLEAN}

(* The memory maps kernel_main is entered with: the bootloader reports     *)
(* non-empty regions, sorted and without overlap, and none of the frames   *)
(* that hold its page tables as Usable.  They offer 0, 1, 2, 3 and 4       *)
(* usable frames.                                                          *)
BootMaps ==
    {<<>>, ScenarioMap}
        \cup {<<Region(1, 1 + k, "Usable"), Region(1 + k, 5, "Reserved")>> : k \in 1..3}

PhysOffsets == {64 * PAGE_SIZE}

NoVirt == [called |-> FALSE, frame |-> U64(0, 0, 0), offset |-> U64(0, 0, 0),
           outcome |-> NotCalled]
NoTranslate == [valid |-> FALSE, addr |-> ExampleAddr(0), res |-> Err("-")]
NoMap ==
    [valid |-> FALSE, page |-> ExamplePage, frame |-> 0, flags |-> {},
     res |-> Err("-"), kind |-> "-", calls |-> 0]

---------------------------------------------------------------------------
(* Initial states.                                                         *)
BootInit ==
    /\ memory_map \in BootMaps
    /\ physical_memory_offset \in PhysOffsets
    /\ phys_mem \in BootStates
    /\ cr3 = BootP4
    /\ mappers = <<>>
    /\ frames = None
    /\ results = <<>>
    /\ translate_result = NoTranslate
    /\ map_to_result = NoMap
    /\ flushed = {}
    /\ console = <<>>
    /\ virt = NoVirt
    /\ frames_b = None
    /\ results_b = <<>>
    /\ empty_results = <<>>

(* A caller of the memory module's public functions.                       *)
Init == BootInit /\ pc = "caller"

(* kernel_main, entered from the bootloader.                               *)
KernelInit == BootInit /\ pc = "main:16"

(* The frame allocator on its own, over any region list.                   *)
AllocInit ==
    /\ memory_map \in RegionLists \cup {ScenarioMap}
    /\ physical_memory_offset = 0
    /\ phys_mem = BootTables(0, FALSE)
    /\ cr3 = BootP4
    /\ mappers = <<>>
    /\ frames = None
    /\ results = <<>>
    /\ translate_result = NoTranslate
    /\ map_to_result = NoMap
    /\ flushed = {}
    /\ console = <<>>
    /\ virt = NoVirt
    /\ frames_b = None
    /\ results_b = <<>>
    /\ empty_results = <<>>
    /\ pc = "caller"

(* The region lists two allocators are built from: every list of at most  *)
(* one region, the scenario's list, and lists whose Usable regions         *)
(* overlap, are out of order, or are empty.                                *)
SharedMaps ==
    {mm \in RegionLists : Len(mm) <= 1}
        \cup {ScenarioMap,
              <<Region(0, 2, "Usable"), Region(1, 3, "Usable")>>,
              <<Region(2, 3, "Usable"), Region(0, 1, "Usable")>>,
              <<Region(1, 1, "Usable"), Region(0, 2, "Reserved")>>}

(* A caller that builds two BootInfoFrameAllocators from one region list   *)
(* and holds an EmptyFrameAllocator.                                       *)
InstancesInit ==
    /\ memory_map \in SharedMaps
    /\ physical_memory_offset = 0
    /\ phys_mem = BootTables(0, FALSE)
    /\ cr3 = BootP4
    /\ mappers = <<>>
    /\ frames = None
    /\ results = <<>>
    /\ translate_result = NoTranslate
    /\ map_to_result = NoMap
    /\ flushed = {}
    /\ console = <<>>
    /\ virt = NoVirt
    /\ frames_b = None
    /\ results_b = <<>>
    /\ empty_results = <<>>
    /\ pc = "caller"

(* The frames and offsets phys_to_virt is called with: page-aligned        *)
(* physical addresses below 2^52 (0, 0x1000, 0x2000, 0xb8000, 2^47,        *)
(* 2^52 - 0x1000) and any u64 as the offset (0, 0x10, 0x40000,             *)
(* 0x7fff_ffff_f000, 2^47, 2^48, 2^63, 0xffff_8000_0000_0000,              *)
(* 0xffff_ffff_ffff_f000, 0xffff_ffff_ffff_ffff).                          *)
Frames64 ==
    {U64(0, 0, 0), U64(0, 0, PAGE_SIZE), U64(0, 0, 2 * PAGE_SIZE),
     U64(0, 0, ExampleFrame), U64(1, 0, 0),
     U64(31, MidSize - 1, LoSize - PAGE_SIZE)}

Offsets64 ==
    {U64(0, 0, 0), U64(0, 0, 16), U64(0, 0, 64 * PAGE_SIZE),
     U64(0, MidSize - 1, LoSize - PAGE_SIZE), U64(1, 0, 0), U64(2, 0, 0),
     U64(HiSize \div 2, 0, 0), U64(HiSize - 1, 0, 0),
     U64(HiSize - 1, MidSize - 1, LoSize - PAGE_SIZE),
     U64(HiSize - 1, MidSize - 1, LoSize - 1)}

(* The Offset Translator on its own, over those frames and offsets.        *)
OffsetInit ==
    /\ memory_map = <<>>
    /\ physical_memory_offset = 0
    /\ phys_mem = BootTables(0, FALSE)
    /\ cr3 = BootP4
    /\ mappers = <<>>
    /\ frames = None
    /\ results = <<>>
    /\ translate_result = NoTranslate
    /\ map_to_result = NoMap
    /\ flushed = {}
    /\ console = <<>>
    /\ virt \in [called : {FALSE}, frame : Frames64, offset : Offsets64,
                  outcome : {NotCalled}]
    /\ frames_b = None
    /\ results_b = <<>>
    /\ empty_results = <<>>
    /\ pc = "caller"

---------------------------------------------------------------------------
(* Operations.                                                             *)

(* One call of the phys_to_virt closure.                                   *)
PhysToVirt ==
    /\ pc = "caller"
    /\ ~virt.called
    /\ \E o \in phys_to_virt(virt.frame, virt.offset) :
           virt' = [virt EXCEPT !.called = TRUE, !.outcome = o]
    /\ UNCHANGED <<frames_b, results_b, empty_results>>
    /\ UNCHANGED <<memory_map, physical_memory_offset, phys_mem, cr3, mappers,
                   frames, pc, results, translate_result, map_to_result,
                   flushed, console>>

(* memory::init                                                            *)
MemoryInitAt(from, to) ==
    /\ pc = from
    /\ Len(mappers) < MaxInits
    /\ mappers' = Append(mappers, init(physical_memory_offset))
    /\ pc' = to
    /\ UNCHANGED <<virt, frames_b, results_b, empty_results>>
    /\ UNCHANGED <<memory_map, physical_memory_offset, phys_mem, cr3, frames,
                   results, translate_result, map_to_result, flushed, console>>

(* memory::init_frame_allocator                                            *)
InitFrameAllocatorAt(from, to) ==
    /\ pc = from
    /\ ~frames.some
    /\ frames' = Some(init_frame_allocator(memory_map))
    /\ pc' = to
    /\ UNCHANGED <<virt, frames_b, results_b, empty_results>>
    /\ UNCHANGED <<memory_map, physical_memory_offset, phys_mem, cr3, mappers,
                   results, translate_result, map_to_result, flushed, console>>

(* BootInfoFrameAllocator::allocate_frame, called by the caller.           *)
AllocateFrame ==
    /\ pc = "caller"
    /\ frames.some
    /\ Len(results) < MaxCalls
    /\ \E n \in {allocate_frame(memory_map, frames.v)} :
           /\ frames' = Some(n.it)
           /\ results' = Append(results, n.item)
    /\ UNCHANGED <<virt, frames_b, results_b, empty_results>>
    /\ UNCHANGED <<memory_map, physical_memory_offset, phys_mem, cr3, mappers,
                   pc, translate_result, map_to_result, flushed, console>>

(* memory::init_frame_allocator, called a second time on the same list.    *)
InitFrameAllocatorB ==
    /\ pc = "caller"
    /\ ~frames_b.some
    /\ frames_b' = Some(init_frame_allocator(memory_map))
    /\ UNCHANGED <<virt, results_b, empty_results>>
    /\ UNCHANGED <<memory_map, physical_memory_offset, phys_mem, cr3, mappers,
                   frames, pc, results, translate_result, map_to_result,
                   flushed, console>>

(* A variant of AllocateFrameB in which the second allocator draws from    *)
(* the first one's iterator.                                               *)
AllocateFrameB_shared_cursor ==
    /\ pc = "caller"
    /\ frames.some
    /\ frames_b.some
    /\ Len(results_b) < MaxCalls
    /\ \E n \in {allocate_frame(memory_map, frames.v)} :
           /\ frames' = Some(n.it)
           /\ results_b' = Append(results_b, n.item)
    /\ UNCHANGED <<virt, frames_b, empty_results>>
    /\ UNCHANGED <<memory_map, physical_memory_offset, phys_mem, cr3, mappers,
                   pc, results, translate_result, map_to_result, flushed, console>>

(* BootInfoFrameAllocator::allocate_frame on the second allocator.         *)
AllocateFrameB ==
    /\ pc = "caller"
    /\ frames_b.some
    /\ Len(results_b) < MaxCalls
    /\ \E n \in {allocate_frame(memory_map, frames_b.v)} :
           /\ frames_b' = Some(n.it)
           /\ results_b' = Append(results_b, n.item)
    /\ UNCHANGED <<virt, empty_results>>
    /\ UNCHANGED <<memory_map, physical_memory_offset, phys_mem, cr3, mappers,
                   frames, pc, results, translate_result, map_to_result,
                   flushed, console>>

(* EmptyFrameAllocator::allocate_frame, called by the caller.              *)
EmptyAllocateFrame ==
    /\ pc = "caller"
    /\ Len(empty_results) < MaxCalls
    /\ empty_results' = Append(empty_results, empty_allocate_frame)
    /\ UNCHANGED <<virt, frames_b, results_b>>
    /\ UNCHANGED <<memory_map, physical_memory_offset, phys_mem, cr3, mappers,
                   frames, pc, results, translate_result, map_to_result,
                   flushed, console>>

(* A variant of TranslateAddr whose walk creates the level-3 table when    *)
(* it is absent, with a frame of the caller's allocator.                   *)
TranslateAddr_creating_tables(addr, mapper) ==
    /\ pc = "caller"
    /\ translate_result' =
          [valid |-> TRUE, addr |-> addr,
           res |-> translate_addr(addr, phys_mem, mapper)]
    /\ \E r \in {create_next_table(phys_mem, mapper,
                      [kind |-> IF frames.some THEN "BootInfo" ELSE "Empty",
                       it |-> IF frames.some THEN frames.v
                              ELSE init_frame_allocator(memory_map)],
                      mapper.level_4_table, page_containing_address(addr).p4)} :
           /\ phys_mem' = r.mem
           /\ frames' = IF frames.some THEN Some(r.alloc.it) ELSE frames
    /\ UNCHANGED <<virt, frames_b, results_b, empty_results>>
    /\ UNCHANGED <<memory_map, physical_memory_offset, cr3, mappers,
                   pc, results, map_to_result, flushed, console>>

(* translate_addr                                                          *)
TranslateAddr(addr, mapper) ==
    /\ pc = "caller"
    /\ translate_result' =
          [valid |-> TRUE, addr |-> addr,
           res |-> translate_addr(addr, phys_mem, mapper)]
    /\ UNCHANGED <<virt, frames_b, results_b, empty_results>>
    /\ UNCHANGED <<memory_map, physical_memory_offset, phys_mem, cr3, mappers,
                   frames, pc, results, map_to_result, flushed, console>>

(* The Mapper values a caller holds.                                       *)
Mappers == {mappers[i] : i \in 1..Len(mappers)}

(* The allocator a caller passes: its BootInfoFrameAllocator, once built,  *)
(* or an EmptyFrameAllocator.                                              *)
Allocators ==
    {[kind |-> "Empty", it |-> init_frame_allocator(memory_map)]}
        \cup (IF frames.some THEN {[kind |-> "BootInfo", it |-> frames.v]} ELSE {})

(* What a map_to call leaves behind, whatever it returned.                 *)
MapToEffect(r, alloc, page, frame, flags) ==
    /\ phys_mem' = r.mem
    /\ frames' = IF alloc.kind = "BootInfo" THEN Some(r.alloc.it) ELSE frames
    /\ map_to_result' =
          [valid |-> TRUE, page |-> page, frame |-> frame, flags |-> flags,
           res |-> r.res, kind |-> alloc.kind, calls |-> map_to_result.calls + 1]
    /\ translate_result' = NoTranslate

(* A variant of flush for a MapperFlush that is dropped unused.            *)
flush_dropped(cache, page) == cache

(* MapperFlush::flush: the page's translation-cache entry is invalidated.  *)
flush(cache, page) == cache \cup {page}

(* A variant of expect_panics for a result that is dropped unread.         *)
expect_never_panics(res) == FALSE

(* .expect("map_to failed"): panics on Err, and on the walk's own panic.   *)
expect_panics(res) == ~res.ok

(* create_example_mapping: map_to for the fixed page and frame, then       *)
(* expect and flush.                                                       *)
CreateExampleMappingAt(from, to, mapper, alloc) ==
    /\ pc = from
    /\ map_to_result.calls < MaxMapCalls
    /\ \E page \in {page_containing_address(ExampleAddr(0))},
          frame \in {containing_address(ExampleFrame)},
          flags \in {{"PRESENT", "WRITABLE"}} :
         \E r \in {map_to(phys_mem, mapper, alloc, page, frame, flags)} :
           /\ MapToEffect(r, alloc, page, frame, flags)
           /\ IF expect_panics(r.res)
              THEN /\ pc' = "panic"
                   /\ flushed' = flushed
              ELSE /\ pc' = to
                   /\ flushed' = flush(flushed, r.res.v)
    /\ UNCHANGED <<virt, frames_b, results_b, empty_results>>
    /\ UNCHANGED <<memory_map, physical_memory_offset, cr3, mappers, results, console>>

(* A caller's own Mapper::map_to on the Mapper that init returned; the     *)
(* result is kept, not unwrapped.                                          *)
MapTo(mapper, alloc, page, frame, flags) ==
    /\ pc = "caller"
    /\ map_to_result.calls < MaxMapCalls
    /\ \E r \in {map_to(phys_mem, mapper, alloc, page, frame, flags)} :
           /\ MapToEffect(r, alloc, page, frame, flags)
           /\ pc' = IF r.res.err = "panic" THEN "panic" ELSE pc
    /\ UNCHANGED <<virt, frames_b, results_b, empty_results>>
    /\ UNCHANGED <<memory_map, physical_memory_offset, cr3, mappers, results,
                   flushed, console>>

(* The panic handler: print the message, then hlt_loop.                    *)
Panic ==
    /\ pc = "panic"
    /\ console' = Append(console, "panicked: map_to failed")
    /\ pc' = "hlt_loop"
    /\ UNCHANGED <<virt, frames_b, results_b, empty_results>>
    /\ UNCHANGED <<memory_map, physical_memory_offset, phys_mem, cr3, mappers,
                   frames, results, translate_result, map_to_result, flushed>>

(* kernel_main, lines 16-21: the greeting and the GDT, IDT and PIC set-up. *)
KernelBoot ==
    /\ pc = "main:16"
    /\ console' = Append(console, "Hello World!")
    /\ pc' = "main:23"
    /\ UNCHANGED <<virt, frames_b, results_b, empty_results>>
    /\ UNCHANGED <<memory_map, physical_memory_offset, phys_mem, cr3, mappers,
                   frames, results, translate_result, map_to_result, flushed>>

(* kernel_main, line 27: the volatile write through 0xdeadbeaf900.         *)
KernelWrite ==
    /\ pc = "main:27"
    /\ console' = Append(console, "write_volatile 0xdeadbeaf900")
    /\ pc' = "main:29"
    /\ UNCHANGED <<virt, frames_b, results_b, empty_results>>
    /\ UNCHANGED <<memory_map, physical_memory_offset, phys_mem, cr3, mappers,
                   frames, results, translate_result, map_to_result, flushed>>

(* kernel_main, lines 29-30: the last line printed, then hlt_loop.         *)
KernelPrintln ==
    /\ pc = "main:29"
    /\ console' = Append(console, "It did not crash!")
    /\ pc' = "hlt_loop"
    /\ UNCHANGED <<virt, frames_b, results_b, empty_results>>
    /\ UNCHANGED <<memory_map, physical_memory_offset, phys_mem, cr3, mappers,
                   frames, results, translate_result, map_to_result, flushed>>

---------------------------------------------------------------------------
(* Specifications.                                                         *)
(* What the model's callers pass to map_to: the example page, its          *)
(* neighbour in the same level-1 table, or the page under the next         *)
(* level-4 entry; frame 0 or the example frame.                            *)
MapPages == {p \in Pages : Differ(p, ExamplePage) \subseteq {"p1"} \/ p.p4 = 28}

MapArgs ==
    {[frame |-> 0, flags |-> {"PRESENT"}],
     [frame |-> ExampleFrame, flags |-> {"PRESENT", "WRITABLE"}]}

MemoryInit == MemoryInitAt("caller", "caller")
InitFrameAllocator == InitFrameAllocatorAt("caller", "caller")
Translate == \E addr \in Addrs, mapper \in Mappers : TranslateAddr(addr, mapper)
CreateExampleMapping ==
    \E mapper \in Mappers, alloc \in Allocators :
        CreateExampleMappingAt("caller", "caller", mapper, alloc)
CallMapTo ==
    \E mapper \in Mappers, alloc \in Allocators, page \in MapPages, a \in MapArgs :
        MapTo(mapper, alloc, page, a.frame, a.flags)

Next ==
    \/ MemoryInit
    \/ InitFrameAllocator
    \/ Translate
    \/ CreateExampleMapping
    \/ CallMapTo
    \/ Panic

Spec == Init /\ [][Next]_vars

KernelMemoryInit == MemoryInitAt("main:23", "main:24")
KernelInitFrameAllocator == InitFrameAllocatorAt("main:24", "main:26")
KernelCreateExampleMapping ==
    CreateExampleMappingAt("main:26", "main:27", mappers[1],
                           [kind |-> "BootInfo", it |-> frames.v])

KernelNext ==
    \/ KernelBoot
    \/ KernelMemoryInit
    \/ KernelInitFrameAllocator
    \/ KernelCreateExampleMapping
    \/ KernelWrite
    \/ KernelPrintln
    \/ Panic

KernelSpec == KernelInit /\ [][KernelNext]_vars

(* The caller ends by handing its allocator to create_example_mapping,    *)
(* with the Mapper of a memory::init call.                                 *)
AllocCreateExampleMapping ==
    /\ frames.some
    /\ CreateExampleMappingAt("caller", "done", init(physical_memory_offset),
                              [kind |-> "BootInfo", it |-> frames.v])

AllocNext ==
    \/ InitFrameAllocator
    \/ AllocateFrame
    \/ AllocCreateExampleMapping

AllocSpec == AllocInit /\ [][AllocNext]_vars

InstancesNext ==
    \/ InitFrameAllocator
    \/ InitFrameAllocatorB
    \/ AllocateFrame
    \/ AllocateFrameB
    \/ EmptyAllocateFrame

InstancesSpec == InstancesInit /\ [][InstancesNext]_vars

OffsetNext == PhysToVirt

OffsetSpec == OffsetInit /\ [][OffsetNext]_vars

---------------------------------------------------------------------------
(* Properties of the region-list allocator (AllocSpec).                    *)

Range(q) == {q[i] : i \in 1..Len(q)}

(* The frame numbers a region spans.                                       *)
FrameNumbers(r) ==
    {n \in 0..r.end_frame_number : r.start_frame_number <= n /\ n < r.end_frame_number}

UsableAt(mm) == {i \in 1..Len(mm) : mm[i].region_type = "Usable"}

(* No frame lies in two Usable regions of the list.                        *)
UsableDisjoint(mm) ==
    \A i, j \in UsableAt(mm) :
        i # j => FrameNumbers(mm[i]) \cap FrameNumbers(mm[j]) = {}

(* Every non-empty Usable region ends at or before the start of each       *)
(* non-empty Usable region later in the list.                              *)
UsableAscending(mm) ==
    \A i, j \in UsableAt(mm) :
        (i < j /\ FrameNumbers(mm[i]) # {} /\ FrameNumbers(mm[j]) # {})
            => mm[i].end_frame_number <= mm[j].start_frame_number

(* The addresses start, start + 4096, ... below end of a Usable region.    *)
FramesOfRegion(r) ==
    IF r.region_type = "Usable" /\ r.start_frame_number < r.end_frame_number
    THEN [k \in 1..(r.end_frame_number - r.start_frame_number) |->
             start_addr(r) + (k - 1) * PAGE_SIZE]
    ELSE <<>>

RECURSIVE ExpectedFrames(_)
ExpectedFrames(mm) ==
    IF mm = <<>> THEN <<>>
    ELSE FramesOfRegion(Head(mm)) \o ExpectedFrames(Tail(mm))

Successful == {i \in 1..Len(results) : results[i].some}

NoFrameTwice ==
    \A i, j \in Successful : i # j => results[i].v # results[j].v

NonDecreasing ==
    \A i, j \in Successful : i < j => results[i].v <= results[j].v

(* C3, as stated: on one region-list allocator, for every memory region    *)
(* list and every sequence of allocate_frame calls, no frame is returned   *)
(* by two different successful calls.                                      *)
C3_NeverTwice_AnyList == NoFrameTwice

(* C3, amended: when no frame lies in two Usable regions of the list, no   *)
(* frame is returned by two different successful allocate_frame calls.     *)
C3_NeverTwice == UsableDisjoint(memory_map) => NoFrameTwice

C3_Witness ==
    /\ UsableDisjoint(memory_map)
    /\ Cardinality({i \in UsableAt(memory_map) : FrameNumbers(memory_map[i]) # {}}) >= 2
    /\ Cardinality(Successful) >= 3

(* C4: every frame allocate_frame returns starts at an address a with      *)
(* start <= a < end for some Usable region of the list; no frame of a      *)
(* Reserved region or outside every region is dispensed.                   *)
C4_OnlyUsable ==
    \A i \in Successful :
        \E k \in UsableAt(memory_map) :
            /\ start_addr(memory_map[k]) <= results[i].v
            /\ results[i].v < end_addr(memory_map[k])

C4_Witness ==
    /\ Len(memory_map) >= 2
    /\ memory_map[1].region_type = "Reserved"
    /\ FrameNumbers(memory_map[1]) # {}
    /\ Cardinality(Successful) >= 2

(* C5: the results of successive allocate_frame calls are, in list order,  *)
(* each Usable region's addresses start, start + 4096, ... below end, and  *)
(* exhausted after them; the scenario list yields 0x1000, 0x2000, 0x4000,  *)
(* 0x5000 and then exhausted.                                              *)
C5_ListOrder ==
    /\ \A i \in 1..Len(results) :
          results[i] = IF i <= Len(ExpectedFrames(memory_map))
                       THEN Some(ExpectedFrames(memory_map)[i])
                       ELSE None
    /\ (memory_map = ScenarioMap /\ Len(results) >= 5)
          => SubSeq(results, 1, 5) =
                <<Some(4096), Some(8192), Some(16384), Some(20480), None>>

C5_Witness ==
    /\ memory_map = ScenarioMap
    /\ Len(results) = 5
    /\ results[4] = Some(20480)
    /\ results[5] = None

(* C6, as stated: for every memory region list, a later successful         *)
(* allocate_frame call never returns a frame at a lower address than an    *)
(* earlier one.                                                            *)
C6_NonDecreasing_AnyList == NonDecreasing

(* C6, amended: when the list's non-empty Usable regions are in ascending  *)
(* address order without overlap, a later successful allocate_frame call   *)
(* never returns a frame at a lower address than an earlier one.           *)
C6_NonDecreasing == UsableAscending(memory_map) => NonDecreasing

C6_Witness ==
    /\ UsableAscending(memory_map)
    /\ \E i, j \in UsableAt(memory_map) :
          i < j /\ FrameNumbers(memory_map[i]) # {} /\ FrameNumbers(memory_map[j]) # {}
    /\ \E i, j \in Successful : i < j /\ results[i].v < results[j].v
    /\ Cardinality(Successful) >= 3

(* C12: once allocate_frame has reported exhausted, every later call on    *)
(* that allocator reports exhausted too, and so would the next one.        *)
C12_ExhaustedStays ==
    /\ \A i, j \in 1..Len(results) :
          (i < j /\ ~results[i].some) => ~results[j].some
    /\ (frames.some /\ \E i \in 1..Len(results) : ~results[i].some)
          => ~allocate_frame(memory_map, frames.v).item.some

C12_Witness ==
    /\ Len(results) >= 5
    /\ results[2].some
    /\ \A i \in (Len(results) - 2)..Len(results) : ~results[i].some

(* C16: every frame the region-list allocator dispenses, to the caller or  *)
(* to map_to for a new page table, starts at a multiple of 4096, and so    *)
(* do the page and the frame create_example_mapping maps.                  *)
C16_PageAligned ==
    /\ \A i \in Successful : results[i].v % PAGE_SIZE = 0
    /\ \A f \in DOMAIN phys_mem : f % PAGE_SIZE = 0
    /\ map_to_result.valid
          => /\ page_offset(map_to_result.page) = 0
             /\ map_to_result.frame % PAGE_SIZE = 0

C16_Witness ==
    /\ pc = "done"
    /\ map_to_result.page = ExamplePage
    /\ map_to_result.frame = 753664
    /\ Cardinality(DOMAIN phys_mem) = 4
    /\ Cardinality(Successful) >= 2
    /\ \E i \in Successful : results[i].v >= 2 * PAGE_SIZE

(* No Usable region of the list holds a frame: the list is empty, has no   *)
(* Usable region, or each Usable region has start >= end.                  *)
NoUsableFrames(mm) == \A i \in UsableAt(mm) : FrameNumbers(mm[i]) = {}

(* C18: on a list without usable frames the first allocate_frame call      *)
(* reports exhausted; Reserved regions and empty Usable regions yield no   *)
(* frame and do not keep the frames of the Usable regions after them from  *)
(* being dispensed.                                                        *)
C18_EmptyRegions ==
    /\ (NoUsableFrames(memory_map) /\ Len(results) >= 1) => ~results[1].some
    /\ (\E i \in 1..Len(results) : ~results[i].some)
          => \A k \in UsableAt(memory_map) :
                \A n \in FrameNumbers(memory_map[k]) :
                    Some(n * PAGE_SIZE) \in Range(results)
    /\ \A i \in Successful :
          \E k \in UsableAt(memory_map) :
              results[i].v \div PAGE_SIZE \in FrameNumbers(memory_map[k])

C18_Witness ==
    /\ Len(memory_map) = 2
    /\ memory_map[1].region_type = "Reserved"
    /\ FrameNumbers(memory_map[1]) # {}
    /\ memory_map[2].region_type = "Usable"
    /\ memory_map[2].start_frame_number > memory_map[2].end_frame_number
    /\ Len(results) >= 2
    /\ ~results[1].some

---------------------------------------------------------------------------
(* Properties of allocator instances (InstancesSpec).                      *)

(* C13: EmptyFrameAllocator::allocate_frame reports exhausted on every     *)
(* call, however many were made and whatever the other allocators were     *)
(* asked before.                                                           *)
C13_NullAlwaysExhausted ==
    \A i \in 1..Len(empty_results) : empty_results[i] = None

C13_Witness ==
    /\ Len(empty_results) >= 3
    /\ Cardinality(Successful) >= 2
    /\ Len(results_b) >= 1
    /\ ~empty_results[Len(empty_results)].some

(* The two allocators have returned the same results call for call.        *)
SameResults ==
    \A i \in 1..Len(results) : i <= Len(results_b) => results[i] = results_b[i]

(* A step of one allocator leaves the other one and the region list as    *)
(* they were.                                                              *)
IndependentStep ==
    /\ memory_map' = memory_map
    /\ (results_b' # results_b) => (frames' = frames /\ results' = results)
    /\ (results' # results) => (frames_b' = frames_b /\ results_b' = results_b)
    /\ (empty_results' # empty_results)
          => (frames' = frames /\ frames_b' = frames_b)

(* C19: two allocators built from the same region list return the same     *)
(* sequence of results; allocate_frame on one leaves the other's iterator  *)
(* and results as they were, and no step changes the region list.          *)
C19_IndependentInstances ==
    /\ []SameResults
    /\ [][IndependentStep]_vars

C19_Witness ==
    /\ memory_map = ScenarioMap
    /\ Len(results) = 4
    /\ results[4] = Some(20480)
    /\ Len(results_b) = 2
    /\ results_b[2] = Some(8192)
    /\ allocate_frame(memory_map, frames_b.v).item = Some(16384)
    /\ ~allocate_frame(memory_map, frames.v).item.some

---------------------------------------------------------------------------
(* Properties of the Mapper and of translate_addr (Spec).                  *)

Present(e) == "PRESENT" \in e.flags
IsHuge(e) == "HUGE_PAGE" \in e.flags

(* The paging hardware's walk from CR3 over physical frames: the page has  *)
(* a mapping installed, as a 4 KiB page or under a huge page.              *)
Mapped4K(mem, page) ==
    /\ Present(mem[cr3][page.p4]) /\ ~IsHuge(mem[cr3][page.p4])
    /\ Present(mem[mem[cr3][page.p4].addr][page.p3])
    /\ ~IsHuge(mem[mem[cr3][page.p4].addr][page.p3])
    /\ Present(mem[mem[mem[cr3][page.p4].addr][page.p3].addr][page.p2])
    /\ ~IsHuge(mem[mem[mem[cr3][page.p4].addr][page.p3].addr][page.p2])
    /\ Present(mem[mem[mem[mem[cr3][page.p4].addr][page.p3].addr][page.p2].addr][page.p1])

MappedHuge(mem, page) ==
    /\ Present(mem[cr3][page.p4])
    /\ Present(mem[mem[cr3][page.p4].addr][page.p3])
    /\ \/ IsHuge(mem[mem[cr3][page.p4].addr][page.p3])
       \/ /\ Present(mem[mem[mem[cr3][page.p4].addr][page.p3].addr][page.p2])
          /\ IsHuge(mem[mem[mem[cr3][page.p4].addr][page.p3].addr][page.p2])

HasMapping(mem, page) == Mapped4K(mem, page) \/ MappedHuge(mem, page)

(* The number of page tables missing on the walk to the page's level-1     *)
(* table.                                                                  *)
MissingTables(mem, page) ==
    IF ~Present(mem[cr3][page.p4]) THEN 3
    ELSE IF ~Present(mem[mem[cr3][page.p4].addr][page.p3]) THEN 2
    ELSE IF IsHuge(mem[mem[cr3][page.p4].addr][page.p3]) THEN 0
    ELSE IF ~Present(mem[mem[mem[cr3][page.p4].addr][page.p3].addr][page.p2]) THEN 1
    ELSE 0

(* The allocator reports exhausted on one of its next k allocate_frame     *)
(* calls.                                                                  *)
RECURSIVE ExhaustedWithin(_, _)
ExhaustedWithin(alloc, k) ==
    /\ k > 0
    /\ \/ ~alloc_frame(alloc).item.some
       \/ ExhaustedWithin(alloc_frame(alloc).alloc, k - 1)

(* The result is the failure e.                                            *)
Failed(res, e) == ~res.ok /\ res.err = e

(* The step is a map_to call.                                              *)
MapToStep == map_to_result'.calls = map_to_result.calls + 1

(* The allocator that call was handed.                                     *)
PassedAllocator ==
    [kind |-> map_to_result'.kind,
     it |-> IF map_to_result'.kind = "BootInfo" THEN frames.v
            ELSE init_frame_allocator(memory_map)]

C2_InitAtMostOnce == Len(mappers) <= 1

(* C7: translate_addr of an address whose page has no mapping installed    *)
(* reports unmapped, an outcome that is no valid translation (not address  *)
(* 0, not a stale address); so does translate_addr(0xdeadbeaf000) before   *)
(* any map.                                                                *)
C7_UnmappedReported ==
    (translate_result.valid
        /\ ~HasMapping(phys_mem, page_containing_address(translate_result.addr)))
        => /\ ~translate_result.res.ok
           /\ translate_result.res = Err("PageNotMapped")

C7_Witness ==
    /\ translate_result.valid
    /\ translate_result.addr = ExampleAddr(0)
    /\ ~map_to_result.valid
    /\ ~HasMapping(phys_mem, ExamplePage)
    /\ translate_result.res = Err("PageNotMapped")

(* C8: map_to on a page that already holds a mapping returns a conflict    *)
(* (PageAlreadyMapped for a 4 KiB mapping, ParentEntryHugePage under a     *)
(* huge page) and overwrites nothing: the page tables, and so what         *)
(* translate_addr returns for the page, are as before the call.            *)
C8_ConflictNoOverwrite ==
    [][(MapToStep /\ HasMapping(phys_mem, map_to_result'.page))
          => /\ Failed(map_to_result'.res,
                       IF Mapped4K(phys_mem, map_to_result'.page)
                       THEN "PageAlreadyMapped" ELSE "ParentEntryHugePage")
             /\ phys_mem' = phys_mem
             /\ \A o \in Offsets, mapper \in Mappers :
                   translate_addr([map_to_result'.page EXCEPT !.off = o],
                                  phys_mem', mapper)
                     = translate_addr([map_to_result'.page EXCEPT !.off = o],
                                      phys_mem, mapper)]_vars

C8_Witness ==
    /\ map_to_result.calls = 2
    /\ map_to_result.page = ExamplePage
    /\ Failed(map_to_result.res, "PageAlreadyMapped")
    /\ flushed = {ExamplePage}
    /\ pc = "panic"
    /\ translate_addr(ExampleAddr(10), phys_mem, mappers[1]) = Ok(753674)

(* C9: when map_to needs a page table that is absent and the allocator it  *)
(* was handed reports exhausted, map_to returns a failure and the page     *)
(* does not become mapped.                                                 *)
C9_ExhaustionReported ==
    [][(/\ MapToStep
        /\ MissingTables(phys_mem, map_to_result'.page) > 0
        /\ ExhaustedWithin(PassedAllocator,
                           MissingTables(phys_mem, map_to_result'.page)))
          => /\ Failed(map_to_result'.res, "FrameAllocationFailed")
             /\ ~HasMapping(phys_mem', map_to_result'.page)]_vars

C9_Witness ==
    /\ map_to_result.valid
    /\ map_to_result.kind = "BootInfo"
    /\ Failed(map_to_result.res, "FrameAllocationFailed")
    /\ Cardinality(DOMAIN phys_mem) > 1
    /\ ~HasMapping(phys_mem, map_to_result.page)

(* The step is a translate_addr call.                                      *)
TranslateStep == translate_result'.valid /\ translate_result' # translate_result

(* What the next allocate_frame and the next create_example_mapping's      *)
(* map_to would return.                                                    *)
NextAllocateFrame ==
    IF frames.some THEN allocate_frame(memory_map, frames.v).item ELSE None

NextMapTo ==
    map_to(phys_mem, mappers[1],
           IF frames.some THEN [kind |-> "BootInfo", it |-> frames.v]
           ELSE [kind |-> "Empty", it |-> init_frame_allocator(memory_map)],
           ExamplePage, ExampleFrame, {"PRESENT", "WRITABLE"}).res

(* C14: translate_addr, for a mapped or an unmapped address, leaves the    *)
(* page tables and the allocator's iterator as they were, so what a later  *)
(* allocate_frame or map_to returns is the same as without the call.       *)
C14_TranslatePureRead ==
    [][TranslateStep
          => /\ phys_mem' = phys_mem
             /\ frames' = frames
             /\ NextAllocateFrame' = NextAllocateFrame
             /\ NextMapTo' = NextMapTo]_vars

C14_Witness ==
    /\ translate_result.valid
    /\ ~translate_result.res.ok
    /\ MissingTables(phys_mem, page_containing_address(translate_result.addr)) = 3
    /\ frames.some
    /\ NextAllocateFrame.some
    /\ map_to_result.valid
    /\ map_to_result.res.ok

(* The addresses outside the page.                                         *)
Outside(page) == {a \in Addrs : page_containing_address(a) # page}

(* C17: a successful map_to, that of create_example_mapping included,      *)
(* changes the translation of its page only: translate_addr of every       *)
(* address outside the page returns what it returned before the call.      *)
C17_OtherPagesUntouched ==
    [][(MapToStep /\ map_to_result'.res.ok)
          => \A a \in Outside(map_to_result'.page), mapper \in Mappers :
                translate_addr(a, phys_mem', mapper)
                    = translate_addr(a, phys_mem, mapper)]_vars

C17_Witness ==
    /\ map_to_result.valid
    /\ map_to_result.res.ok
    /\ map_to_result.page = ExamplePage
    /\ map_to_result.frame = 753664
    /\ flushed = {ExamplePage}
    /\ map_to_result.calls = 1
    /\ translate_result.valid
    /\ translate_result.addr = [ExamplePage EXCEPT !.p1 = 176]
    /\ translate_result.res = Ok(BootFrameB)

---------------------------------------------------------------------------
(* Properties of kernel_main (KernelSpec).                                 *)

(* C15: kernel_main builds the Mapper, then the frame allocator, then      *)
(* maps page 0xdeadbeaf000 and flushes its translation-cache entry, and    *)
(* only then writes through 0xdeadbeaf900: the write never happens unless  *)
(* the map has succeeded and the flush has been performed.                 *)
C15_KernelOrder ==
    /\ frames.some => Len(mappers) = 1
    /\ map_to_result.valid
          => (frames.some /\ map_to_result.page = ExamplePage
                /\ map_to_result.calls = 1)
    /\ flushed # {} => (map_to_result.res.ok /\ flushed = {ExamplePage})
    /\ "write_volatile 0xdeadbeaf900" \in Range(console)
          => (map_to_result.valid /\ map_to_result.res.ok
                /\ ExamplePage \in flushed)
    /\ pc \in {"main:27", "main:29"} => ExamplePage \in flushed

C15_Witness ==
    /\ pc = "hlt_loop"
    /\ console = <<"Hello World!", "write_volatile 0xdeadbeaf900",
                   "It did not crash!">>
    /\ flushed = {ExamplePage}
    /\ Cardinality(DOMAIN phys_mem) = 4


(* C10: when map_to fails inside create_example_mapping, kernel_main goes  *)
(* to the panic handler and hlt_loop: it never writes through              *)
(* 0xdeadbeaf900, never prints "It did not crash!", and map_to is not      *)
(* called again.                                                           *)
C10_FailureHalts ==
    (map_to_result.valid /\ ~map_to_result.res.ok)
        => /\ pc \in {"panic", "hlt_loop"}
           /\ "write_volatile 0xdeadbeaf900" \notin Range(console)
           /\ "It did not crash!" \notin Range(console)
           /\ map_to_result.calls = 1
           /\ pc = "hlt_loop" => console = <<"Hello World!", "panicked: map_to failed">>

C10_Witness ==
    /\ map_to_result.valid
    /\ ~map_to_result.res.ok
    /\ pc = "hlt_loop"
    /\ console = <<"Hello World!", "panicked: map_to failed">>

---------------------------------------------------------------------------
(* Properties of the Offset Translator (OffsetSpec).                       *)

(* C11, as stated: for every frame and every 64-bit offset, phys_to_virt   *)
(* returns, without aborting, exactly frame address + offset, also when    *)
(* the sum overflows u64 or is no valid virtual address.                   *)
C11_ExactSumNoAbort ==
    virt.called
        => /\ virt.outcome.ok
           /\ ~add_u64(virt.frame, virt.offset).overflow
           /\ virt.outcome.v = add_u64(virt.frame, virt.offset).sum

============================================================================
